---- MODULE Spec2Model ----
(***************************************************************************)
(* Film Production Master App (src/app.py): one browser session of the     *)
(* Streamlit script.  Every action is one user interaction followed by the *)
(* script run(s) it triggers; the variables are st.session_state, the API  *)
(* key configured in st.secrets, the LLM calls made by the latest script   *)
(* run and what that run rendered.                                         *)
(***************************************************************************)
EXTENDS Integers, Sequences, FiniteSets, TLC

VARIABLES
    keys,                \* the keys present in st.session_state
    authenticated,       \* st.session_state.authenticated
    user_email,          \* st.session_state.user_email
    user_name,           \* st.session_state.user_name
    is_admin,            \* st.session_state.is_admin
    temp_deepseek_key,   \* st.session_state.temp_deepseek_key
    standards_results,   \* st.session_state.standards_results
    production_results,  \* st.session_state.production_results
    current_filename,    \* st.session_state.current_filename
    secrets_key,         \* st.secrets has DEEPSEEK_API_KEY
    uploaded_file,       \* the file held by the st.file_uploader widget
    llm_calls,           \* chat-completion calls made by the latest script run
    snp_report,          \* the downloads offered by the "Generate S&P Reports" button
    logged_out,          \* history: the Logout button was pressed in this session
    view,                \* what the latest script run rendered
    text,                \* prompt construction: the extracted text
    prompts              \* prompt construction: script portions embedded so far

vars == <<keys, authenticated, user_email, user_name, is_admin,
          temp_deepseek_key, standards_results, production_results,
          current_filename, secrets_key, uploaded_file, llm_calls, view,
          snp_report, logged_out, text, prompts>>

session == <<keys, authenticated, user_email, user_name, is_admin,
             temp_deepseek_key, standards_results, production_results,
             current_filename>>

----------------------------------------------------------------------------
(* Bounds of the model *)

\* pages (paragraphs) of an uploaded document
MaxPages == 1
\* prompt construction: texts up to this much shorter/longer than the limit
MaxExtra == 2
\* prompt construction: short texts
MaxShort == 4
\* prompt construction: distinct character patterns
MaxPattern == 4

Min(a, b) == IF a < b THEN a ELSE b
Max(a, b) == IF a < b THEN b ELSE a

----------------------------------------------------------------------------
(* Strings.  A string is a sequence of tokens; a token is a run of         *)
(* characters that the code never looks inside, or a single character the  *)
(* code tests for (".", " ").  Script text is a sequence of characters     *)
(* written as naturals, 0 being the newline.                               *)

NEWLINE == 0

\* str.lower() on one token
LowerTok(t) ==
    CASE t = "PDF" -> "pdf"
      [] t = "Docx" -> "docx"
      [] t = "DOC" -> "doc"
      [] t = "@GMAIL.COM" -> "@gmail.com"
      [] t = "@Hoichoi.TV" -> "@hoichoi.tv"
      [] t = "Admin" -> "admin"
      [] OTHER -> t

\* str.lower()
Lower(s) == [i \in DOMAIN s |-> LowerTok(s[i])]

IsSpace(t) == t = " "

RECURSIVE LStrip(_)
LStrip(s) == IF s # <<>> /\ IsSpace(Head(s)) THEN LStrip(Tail(s)) ELSE s

RECURSIVE RStrip(_)
RStrip(s) ==
    IF s # <<>> /\ IsSpace(s[Len(s)]) THEN RStrip(SubSeq(s, 1, Len(s) - 1)) ELSE s

\* str.strip()
Strip(s) == LStrip(RStrip(s))

\* str.endswith(suffix)
EndsWith(s, suffix) ==
    /\ Len(suffix) <= Len(s)
    /\ SubSeq(s, Len(s) - Len(suffix) + 1, Len(s)) = suffix

\* s[:stop] with Python's clamping of the bound
SliceTo(s, stop) ==
    LET n == Len(s)
        hi == IF stop < 0 THEN Max(n + stop, 0) ELSE Min(stop, n)
    IN  SubSeq(s, 1, hi)

----------------------------------------------------------------------------
(* Authentication *)

authorized_domains == << <<"@hoichoi.tv">>, <<"@gmail.com">>, <<"@example.com">> >>

\* a check that looks for the domain anywhere in the email
check_email_domain_Contains(email) ==
    LET e == Strip(Lower(email))
    IN  \E i \in DOMAIN authorized_domains : \E k \in DOMAIN e :
            SubSeq(e, k, k + Len(authorized_domains[i]) - 1) = authorized_domains[i]

check_email_domain(email) ==
    \E i \in DOMAIN authorized_domains :
        EndsWith(Strip(Lower(email)), authorized_domains[i])

admin_emails == { <<"admin", "@hoichoi.tv">>, <<"sp", "@hoichoi.tv">> }

IsAt(t) == t \in {"@hoichoi.tv", "@gmail.com", "@example.com", "@evil.com",
                  "@GMAIL.COM", "@Hoichoi.TV"}

\* email.split('@')[0]: everything before the first '@'
RECURSIVE BeforeAt(_)
BeforeAt(email) ==
    IF email = <<>> \/ IsAt(Head(email)) THEN <<>>
    ELSE <<Head(email)>> \o BeforeAt(Tail(email))

\* .replace('.', ' ').title() on one token
TitleTok(t) ==
    CASE t = "admin" -> "Admin"
      [] t = "sp" -> "Sp"
      [] t = "alice" -> "Alice"
      [] t = "." -> " "
      [] OTHER -> t

UserName(email) == LET p == BeforeAt(email) IN [i \in DOMAIN p |-> TitleTok(p[i])]

Emails ==
    { <<"admin", "@hoichoi.tv">>,
      <<" ", "alice", "@GMAIL.COM", " ">>,
      <<"alice", "@evil.com">>,
      <<"alice", "@gmail.com", ".", "evil">>,
      <<"alice">>,
      <<>> }

Passwords == {"", "secret"}

----------------------------------------------------------------------------
(* JSON documents.  A parsed value is a record of one shape: its JSON type,*)
(* the outcome of Python's  'error' in value  on it, and, for an object,   *)
(* the members the tabs and the reports read.                              *)

\* a violation object; "absent" stands for a missing key and "null" for a JSON
\* null; the excerpt, explanation and action are short texts
Violation(vt, sev, page) ==
    [violationType |-> vt, severity |-> sev, violationText |-> "excerpt of " \o vt,
     explanation |-> "why " \o vt, suggestedAction |-> "fix " \o vt,
     pageNumber |-> page]

\* the keys of a violation object in the order the reply writes them
violation_keys ==
    <<"violationType", "severity", "violationText", "explanation", "suggestedAction",
      "pageNumber">>

Location(has_name, has_scenes, n) ==
    [has_name |-> has_name, has_scenes |-> has_scenes, num_scenes |-> n]

Object(has_error, error, vkind, violations, locations, props) ==
    [type |-> "object", has_error |-> has_error, error |-> error,
     violations_kind |-> vkind, violations |-> violations,
     locations |-> locations, unique_props |-> props]

NonObject(type, has_error) ==
    [type |-> type, has_error |-> has_error, error |-> "",
     violations_kind |-> "absent", violations |-> <<>>,
     locations |-> <<>>, unique_props |-> <<>>]

\* the texts of the JSON documents the model's LLM can answer with
DocNames == {"{violations}", "{error}", "{violations:null severity}",
             "{locations:no scenes}"}

\* the value each text denotes
DocOf(d) ==
    CASE d = "{violations}" ->
            Object(FALSE, "", "list",
                   <<Violation("language", "high", 3), Violation("violence", "absent", 1)>>,
                   <<>>, <<>>)
      [] d = "{error}" -> Object(TRUE, "cannot analyse", "absent", <<>>, <<>>, <<>>)
      [] d = "{violations:null severity}" ->
            Object(FALSE, "", "list", <<Violation("language", "null", 3)>>, <<>>, <<>>)
      [] d = "{locations:no scenes}" ->
            Object(FALSE, "", "absent", <<>>,
                   <<Location(TRUE, TRUE, 1), Location(TRUE, FALSE, 0)>>, <<"desk">>)

\* {"error": str(e)}
ErrorResult(msg) == Object(TRUE, msg, "absent", <<>>, <<>>, <<>>)

\* value of an absent session key
NoResult == NonObject("absent", FALSE)

----------------------------------------------------------------------------
\* LLM replies: message.content as a string of tokens: a JSON document,
\* white space, the fence markers of a markdown code block, other text.

\* a reply that wraps the document in a markdown json code block
Fenced(d) == <<"FENCE json", " ", d, " ", "FENCE">>

FencedDocs == {"{violations}"}

Replies ==
    {<<d>> : d \in DocNames} \cup {Fenced(d) : d \in FencedDocs}
    \cup { <<"not json">>, <<" ", "{violations}", " ">> }

\* json.loads(s): skip white space, decode one value, skip white space,
\* and the end of the string must follow
json_loads(s) ==
    LET s1 == LStrip(s)
    IN  IF s1 = <<>> \/ Head(s1) \notin DocNames
        THEN [raised |-> TRUE, value |-> NoResult, msg |-> "Expecting value"]
        ELSE IF LStrip(Tail(s1)) # <<>>
        THEN [raised |-> TRUE, value |-> NoResult, msg |-> "Extra data"]
        ELSE [raised |-> FALSE, value |-> DocOf(Head(s1)), msg |-> ""]

----------------------------------------------------------------------------
(* Uploaded files: the name, the format the bytes really have, and the     *)
(* text of each page (PDF) or paragraph (DOCX).                            *)

Filenames ==
    { <<"script", ".", "PDF">>,
      <<"script", ".", "docx">>,
      <<"script", ".", "DOC">>,
      <<"script", ".", "txt">>,
      <<"script", ".", "pdf", ".", "txt">>,
      <<".", "pdf">>,
      <<"script">> }

\* documents of n pages, each with the one character 1
PageLists == { [i \in 1..n |-> <<1>>] : n \in 0..MaxPages }

Files ==
    [name : Filenames, format : {"pdf", "docx"}, pages : PageLists]
    \cup [name : Filenames, format : {"corrupt"}, pages : {<<>>}]

\* the uploader holds no file
NoFile == [name |-> <<>>, format |-> "none", pages |-> <<>>]

\* os.path.splitext(filename)[1]: from the last dot on, unless only dots
\* come before it
splitext_ext(name) ==
    LET dots == {i \in DOMAIN name : name[i] = "."}
        last == IF dots = {} THEN 0 ELSE CHOOSE i \in dots : \A j \in dots : j <= i
    IN  IF last > 0 /\ \E k \in 1..(last - 1) : name[k] # "."
        THEN SubSeq(name, last, Len(name))
        ELSE <<>>

Raise(msg) == [raised |-> TRUE, msg |-> msg, text |-> <<>>]
Return(t) == [raised |-> FALSE, msg |-> "", text |-> t]

\* text += page_text + "\n" over the pages
RECURSIVE ConcatPages(_)
ConcatPages(pages) ==
    IF pages = <<>> THEN <<>>
    ELSE Head(pages) \o <<NEWLINE>> \o ConcatPages(Tail(pages))

\* a decoder that gives no text for bytes it cannot read
extract_text_from_pdf_SwallowsError(file) ==
    IF file.format # "pdf" THEN Return(<<>>)
    ELSE Return(ConcatPages(file.pages))

extract_text_from_pdf(file) ==
    IF file.format # "pdf" THEN Raise("Error reading PDF")
    ELSE Return(ConcatPages(file.pages))

extract_text_from_docx(file) ==
    IF file.format # "docx" THEN Raise("Error reading DOCX")
    ELSE Return(ConcatPages(file.pages))

\* an extractor that hands every other extension to the DOCX decoder
extract_text_from_file_FallsBackToDocx(file) ==
    LET file_extension == Lower(splitext_ext(file.name))
    IN  IF file_extension = <<".", "pdf">> THEN extract_text_from_pdf(file)
        ELSE extract_text_from_docx(file)

extract_text_from_file(file) ==
    LET file_extension == Lower(splitext_ext(file.name))
    IN  IF file_extension = <<".", "pdf">> THEN extract_text_from_pdf(file)
        ELSE IF file_extension \in { <<".", "docx">>, <<".", "doc">> }
        THEN extract_text_from_docx(file)
        ELSE Raise("Unsupported file type")

----------------------------------------------------------------------------
(* The two analyses.  Each makes one chat-completion call whose user       *)
(* message embeds a slice of the text, decodes the reply, and turns every  *)
(* exception into an error result.                                         *)

STANDARDS_SCRIPT_CHARS == 10000
PRODUCTION_SCRIPT_CHARS == 10000

\* the script portion of the standards prompt: {text[:10000]}
standards_script(t) == SliceTo(t, STANDARDS_SCRIPT_CHARS)

\* a production prompt with a budget of 8000 characters
production_script_8000(t) == SliceTo(t, 8000)

\* the script portion of the production prompt: {text[:10000]}
production_script(t) == SliceTo(t, PRODUCTION_SCRIPT_CHARS)

Call(kind, script, api, reply) ==
    [kind |-> kind, script |-> script, api |-> api,
     reply |-> IF api = "ok" THEN reply ELSE <<>>]

\* an analysis that catches the failures of the API call only
Analysis_DecodeErrorPropagates(kind, script, api, reply) ==
    LET calls == <<Call(kind, script, api, reply)>>
    IN  IF api # "ok"
        THEN [raised |-> FALSE, msg |-> "", result |-> ErrorResult("Connection error."),
              calls |-> calls]
        ELSE LET parsed == json_loads(reply)
             IN  IF parsed.raised
                 THEN [raised |-> TRUE, msg |-> parsed.msg, result |-> NoResult,
                       calls |-> calls]
                 ELSE [raised |-> FALSE, msg |-> "", result |-> parsed.value,
                       calls |-> calls]

\* try: create(...); json.loads(content)  except Exception as e: {"error": str(e)}
Analysis(kind, script, api, reply) ==
    LET calls == <<Call(kind, script, api, reply)>>
    IN  IF api # "ok"
        THEN [raised |-> FALSE, msg |-> "", result |-> ErrorResult("Connection error."),
              calls |-> calls]
        ELSE LET parsed == json_loads(reply)
             IN  IF parsed.raised
                 THEN [raised |-> FALSE, msg |-> "", result |-> ErrorResult(parsed.msg),
                       calls |-> calls]
                 ELSE [raised |-> FALSE, msg |-> "", result |-> parsed.value,
                       calls |-> calls]

analyze_for_standards(t, api, reply) ==
    Analysis("standards", standards_script(t), api, reply)

analyze_for_production(t, api, reply) ==
    Analysis("production", production_script(t), api, reply)

----------------------------------------------------------------------------
(* The results tabs.  A tab shows the "upload a script first" note, the    *)
(* error of the stored result, or the rendered result with the button that *)
(* generates the reports; an exception raised while rendering ends the     *)
(* script run.                                                             *)

TabView(shown, offered) == [shown |-> shown, report_offered |-> offered]

NotRun == TabView("not_run", FALSE)

\* Python's  'error' in results  is defined on containers only
CanTestMembership(results) == results.type \in {"object", "array", "string"}

tab_standards_results(k, results) ==
    IF "standards_results" \notin k THEN TabView("info", FALSE)
    ELSE IF ~CanTestMembership(results) THEN TabView("exception", FALSE)
    ELSE IF results.has_error
    THEN IF results.type = "object" THEN TabView("error", FALSE)
         ELSE TabView("exception", FALSE)
    ELSE IF results.type # "object" THEN TabView("exception", FALSE)
    \* severity = violation.get('severity', 'low'); severity.upper()
    ELSE IF \E i \in DOMAIN results.violations : results.violations[i].severity = "null"
    THEN TabView("exception", FALSE)
    ELSE TabView("results", TRUE)

tab_production_results(k, results) ==
    IF "production_results" \notin k THEN TabView("info", FALSE)
    ELSE IF ~CanTestMembership(results) THEN TabView("exception", FALSE)
    ELSE IF results.has_error
    THEN IF results.type = "object" THEN TabView("error", FALSE)
         ELSE TabView("exception", FALSE)
    ELSE IF results.type # "object" THEN TabView("exception", FALSE)
    \* location['location_name'], location['scenes_in_location']
    ELSE IF \E i \in DOMAIN results.locations :
                ~results.locations[i].has_name \/ ~results.locations[i].has_scenes
    THEN TabView("exception", FALSE)
    ELSE TabView("results", TRUE)

LoginPage(denied) ==
    [page |-> "login", login_error |-> denied, clicked |-> FALSE, upload_msg |-> "",
     std_tab |-> NotRun, prod_tab |-> NotRun]

\* main() once authenticate_user() has returned True: the three tabs in order;
\* clicked: this run is the one the "Analyze Script" button started
AppPage(k, std, prod, clicked, upload_msg) ==
    LET tab2 == tab_standards_results(k, std)
    IN  [page |-> "app", login_error |-> FALSE, clicked |-> clicked,
         upload_msg |-> upload_msg,
         std_tab |-> tab2,
         prod_tab |-> IF tab2.shown = "exception" THEN NotRun
                      ELSE tab_production_results(k, prod)]

----------------------------------------------------------------------------
(* The Standards & Practices report: the Violations sheet that pandas      *)
(* writes for DataFrame(violations), the Summary sheet and the text of the *)
(* "PDF" download.                                                         *)

\* a spreadsheet cell: a text, a number, or nothing (a missing value)
Str(s) == [t |-> "str", s |-> s, n |-> 0]
Num(n) == [t |-> "num", s |-> "", n |-> n]
Blank == [t |-> "blank", s |-> "", n |-> 0]

\* the object has the key
HasKey(v, k) == IF k = "pageNumber" THEN TRUE ELSE v[k] # "absent"

\* v.get(k, default)
GetOr(v, k, default) == IF HasKey(v, k) THEN v[k] ELSE default

\* the keys of one violation object, in its order
KeysOf(v) == SelectSeq(violation_keys, LAMBDA k : HasKey(v, k))

\* DataFrame(violations).columns: the keys in the order they first appear
RECURSIVE Columns(_, _)
Columns(violations, seen) ==
    IF violations = <<>> THEN seen
    ELSE Columns(Tail(violations),
                 seen \o SelectSeq(KeysOf(Head(violations)),
                                   LAMBDA k : \A i \in DOMAIN seen : seen[i] # k))

\* the cell of one record under one column
CellOf(v, k) ==
    IF k = "pageNumber" THEN Num(v[k])
    ELSE IF v[k] \in {"absent", "null"} THEN Blank
    ELSE Str(v[k])

\* df.to_excel(writer, sheet_name='Violations', index=False): the header row
\* of column names and one row per record; nothing for a frame with no column
ViolationsSheet(violations) ==
    LET columns == Columns(violations, <<>>)
    IN  IF columns = <<>> THEN <<>>
        ELSE << [j \in DOMAIN columns |-> Str(columns[j])] >>
             \o [i \in DOMAIN violations |->
                    [j \in DOMAIN columns |-> CellOf(violations[i], columns[j])]]

\* len([v for v in violations if v.get('severity') == severity])
CountSeverity(violations, severity) ==
    Cardinality({i \in DOMAIN violations : violations[i].severity = severity})

SummarySheet(violations) ==
    << <<Str("Metric"), Str("Count")>>,
       <<Str("Total"), Num(Len(violations))>>,
       <<Str("Critical"), Num(CountSeverity(violations, "critical"))>>,
       <<Str("High"), Num(CountSeverity(violations, "high"))>>,
       <<Str("Medium"), Num(CountSeverity(violations, "medium"))>>,
       <<Str("Low"), Num(CountSeverity(violations, "low"))>> >>

\* the text of the PDF download, without its time stamp: the counts and the
\* first ten violations (the excerpts of the model are under 100 characters)
PdfContent(violations) ==
    LET listed == SliceTo(violations, 10)
    IN  [total |-> Len(violations),
         critical |-> CountSeverity(violations, "critical"),
         high |-> CountSeverity(violations, "high"),
         entries |-> [i \in DOMAIN listed |->
                        [type |-> GetOr(listed[i], "violationType", "Unknown"),
                         page |-> listed[i].pageNumber,
                         text |-> GetOr(listed[i], "violationText", "N/A"),
                         action |-> GetOr(listed[i], "suggestedAction", "N/A")]]]

generate_snp_report(violations) ==
    [violations_sheet |-> ViolationsSheet(violations),
     summary_sheet |-> SummarySheet(violations),
     pdf |-> PdfContent(violations)]

\* no download is offered
NoReport ==
    [offered |-> FALSE, xlsx_name |-> <<>>, violations_sheet |-> <<>>,
     summary_sheet |-> <<>>, pdf |-> PdfContent(<<>>)]

----------------------------------------------------------------------------------------------------------------------------------------------
(* API key *)

ApiKeys == {"sk-typed"}

\* get_deepseek_api_key() on the given session state
ConfiguredKey(k, temp) ==
    IF "temp_deepseek_key" \in k /\ temp # "" THEN temp
    ELSE IF secrets_key THEN "sk-secrets" ELSE ""

get_deepseek_api_key == ConfiguredKey(keys, temp_deepseek_key)

\* tab_upload_script() in a run no button started
UploadTabMessage(file, key) ==
    IF file # NoFile /\ key = "" THEN "DeepSeek API key required for processing" ELSE ""

----------------------------------------------------------------------------
(* The session *)

Init ==
    \* the first script run: authenticate_user() creates the key and shows the login page
    /\ keys = {"authenticated"}
    /\ authenticated = FALSE
    /\ user_email = <<>>
    /\ user_name = <<>>
    /\ is_admin = FALSE
    /\ temp_deepseek_key = ""
    /\ standards_results = NoResult
    /\ production_results = NoResult
    /\ current_filename = <<>>
    /\ secrets_key \in BOOLEAN
    /\ uploaded_file = NoFile
    /\ llm_calls = <<>>
    /\ view = LoginPage(FALSE)
    /\ snp_report = NoReport
    /\ logged_out = FALSE
    /\ prompts = <<>>

InitSession ==
    /\ Init
    /\ text = <<>>

\* the Login button of authenticate_user()
Login(email, password) ==
    /\ ~authenticated
    /\ IF check_email_domain(email)
       THEN /\ keys' = keys \cup {"authenticated", "user_email", "user_name", "is_admin"}
            /\ authenticated' = TRUE
            /\ user_email' = email
            /\ user_name' = UserName(email)
            /\ is_admin' = (email \in admin_emails)
            \* st.rerun(): the next run shows the application
            /\ view' = AppPage(keys', standards_results, production_results, FALSE, "")
       ELSE /\ UNCHANGED <<keys, authenticated, user_email, user_name, is_admin>>
            /\ view' = LoginPage(TRUE)
    /\ llm_calls' = <<>>
    /\ snp_report' = NoReport
    /\ UNCHANGED <<temp_deepseek_key, standards_results, production_results,
                   current_filename, secrets_key, uploaded_file, logged_out, text,
                   prompts>>

\* the "Enter DeepSeek API Key" input of the sidebar, shown while no key is configured
EnterApiKey(key) ==
    /\ authenticated
    /\ get_deepseek_api_key = ""
    /\ keys' = keys \cup {"temp_deepseek_key"}
    /\ temp_deepseek_key' = key
    /\ llm_calls' = <<>>
    /\ view' = AppPage(keys', standards_results, production_results, FALSE,
                       UploadTabMessage(uploaded_file, ConfiguredKey(keys', key)))
    /\ snp_report' = NoReport
    /\ UNCHANGED <<authenticated, user_email, user_name, is_admin, standards_results,
                   production_results, current_filename, secrets_key, uploaded_file,
                   logged_out, text, prompts>>

\* a file chosen in the st.file_uploader of tab_upload_script()
Upload(file) ==
    /\ authenticated
    /\ uploaded_file' = file
    /\ llm_calls' = <<>>
    /\ view' = AppPage(keys, standards_results, production_results, FALSE,
                       UploadTabMessage(file, get_deepseek_api_key))
    /\ snp_report' = NoReport
    /\ UNCHANGED <<session, secrets_key, logged_out, text, prompts>>

\* the replies the API can give to one call: an exception, or some content
ApiReplies == {<<"network_error", <<>> >>} \cup {<<"ok", r>> : r \in Replies}

Raised(msg, calls) ==
    [raised |-> TRUE, msg |-> msg, calls |-> calls,
     standards_result |-> NoResult, production_result |-> NoResult]

\* a run that gives up the production analysis once the standards analysis failed
AnalyzeScript_StopsAfterFailedStandards(file, r1, r2) ==
    LET extracted == extract_text_from_file(file)
    IN  IF extracted.raised THEN Raised(extracted.msg, <<>>)
        ELSE LET standards == analyze_for_standards(extracted.text, r1[1], r1[2])
                 production == analyze_for_production(extracted.text, r2[1], r2[2])
             IN  IF standards.result.has_error
                 THEN [raised |-> FALSE, msg |-> "", calls |-> standards.calls,
                       standards_result |-> standards.result,
                       production_result |-> ErrorResult("standards analysis failed")]
                 ELSE [raised |-> FALSE, msg |-> "",
                       calls |-> standards.calls \o production.calls,
                       standards_result |-> standards.result,
                       production_result |-> production.result]

\* the try block of the "Analyze Script" button, up to the assignments to the
\* session state; r1 and r2 are what the API answers to the calls, if made
AnalyzeScript(file, r1, r2) ==
    LET extracted == extract_text_from_file(file)
    IN  IF extracted.raised THEN Raised(extracted.msg, <<>>)
        ELSE LET standards == analyze_for_standards(extracted.text, r1[1], r1[2])
             IN  IF standards.raised THEN Raised(standards.msg, standards.calls)
                 ELSE LET production == analyze_for_production(extracted.text, r2[1], r2[2])
                      IN  IF production.raised
                          THEN Raised(production.msg, standards.calls \o production.calls)
                          ELSE [raised |-> FALSE, msg |-> "",
                                calls |-> standards.calls \o production.calls,
                                standards_result |-> standards.result,
                                production_result |-> production.result]

\* the calls a run on this file makes are answered; no other answer is drawn
AnswersTo(file) ==
    IF extract_text_from_file(file).raised THEN {<<"network_error", <<>> >>}
    ELSE ApiReplies

\* a handler that records the file name before it extracts the text
Analyze_StoresFilenameFirst ==
    /\ authenticated
    /\ uploaded_file # NoFile
    /\ get_deepseek_api_key # ""
    /\ \E r1 \in AnswersTo(uploaded_file), r2 \in AnswersTo(uploaded_file) :
       \E run \in {AnalyzeScript(uploaded_file, r1, r2)} :
         /\ llm_calls' = run.calls
         /\ current_filename' = uploaded_file.name
         /\ IF run.raised
            THEN /\ keys' = keys \cup {"current_filename"}
                 /\ UNCHANGED <<standards_results, production_results>>
                 /\ view' = AppPage(keys', standards_results, production_results, TRUE,
                                    "Processing error: " \o run.msg)
            ELSE /\ keys' = keys \cup {"standards_results", "production_results",
                                       "current_filename"}
                 /\ standards_results' = run.standards_result
                 /\ production_results' = run.production_result
                 /\ view' = AppPage(keys', standards_results', production_results', TRUE,
                                    "Analysis complete!")
    /\ snp_report' = NoReport
    /\ UNCHANGED <<authenticated, user_email, user_name, is_admin, temp_deepseek_key,
                   secrets_key, uploaded_file, logged_out, text, prompts>>

\* the "Analyze Script" button of tab_upload_script()
Analyze ==
    /\ authenticated
    /\ uploaded_file # NoFile
    /\ get_deepseek_api_key # ""
    /\ \E r1 \in AnswersTo(uploaded_file), r2 \in AnswersTo(uploaded_file) :
       \E run \in {AnalyzeScript(uploaded_file, r1, r2)} :
         /\ llm_calls' = run.calls
         /\ IF run.raised
            THEN /\ UNCHANGED <<keys, standards_results, production_results,
                                current_filename>>
                 /\ view' = AppPage(keys, standards_results, production_results, TRUE,
                                    "Processing error: " \o run.msg)
            ELSE /\ keys' = keys \cup {"standards_results", "production_results",
                                       "current_filename"}
                 /\ standards_results' = run.standards_result
                 /\ production_results' = run.production_result
                 /\ current_filename' = uploaded_file.name
                 /\ view' = AppPage(keys', standards_results', production_results', TRUE,
                                    "Analysis complete!")
    /\ snp_report' = NoReport
    /\ UNCHANGED <<authenticated, user_email, user_name, is_admin, temp_deepseek_key,
                   secrets_key, uploaded_file, logged_out, text, prompts>>

\* a logout that deletes the keys of the login only
Logout_KeepsResults ==
    /\ authenticated
    /\ keys' = keys \ {"user_email", "user_name", "is_admin"}
    /\ authenticated' = FALSE
    /\ user_email' = <<>>
    /\ user_name' = <<>>
    /\ is_admin' = FALSE
    /\ uploaded_file' = NoFile
    /\ llm_calls' = <<>>
    /\ view' = LoginPage(FALSE)
    /\ snp_report' = NoReport
    /\ logged_out' = TRUE
    /\ UNCHANGED <<temp_deepseek_key, standards_results, production_results,
                   current_filename, secrets_key, text, prompts>>

\* the Logout button of the sidebar
Logout ==
    /\ authenticated
    \* every key is deleted; st.rerun(): authenticate_user() creates the key again
    /\ keys' = {"authenticated"}
    /\ authenticated' = FALSE
    /\ user_email' = <<>>
    /\ user_name' = <<>>
    /\ is_admin' = FALSE
    /\ temp_deepseek_key' = ""
    /\ standards_results' = NoResult
    /\ production_results' = NoResult
    /\ current_filename' = <<>>
    \* the uploader is not rendered on the login page and loses its file
    /\ uploaded_file' = NoFile
    /\ llm_calls' = <<>>
    /\ view' = LoginPage(FALSE)
    /\ snp_report' = NoReport
    /\ logged_out' = TRUE
    /\ UNCHANGED <<secrets_key, text, prompts>>

\* the "Generate S&P Reports" button of tab_standards_results(), shown once
\* the tab has rendered the result
GenerateSnpReports ==
    /\ authenticated
    /\ view.std_tab.report_offered
    /\ \E report \in {generate_snp_report(standards_results.violations)} :
         snp_report' = [offered |-> TRUE,
                        xlsx_name |-> current_filename \o <<"_snp_report.xlsx">>,
                        violations_sheet |-> report.violations_sheet,
                        summary_sheet |-> report.summary_sheet,
                        pdf |-> report.pdf]
    /\ llm_calls' = <<>>
    /\ view' = AppPage(keys, standards_results, production_results, FALSE,
                       UploadTabMessage(uploaded_file, get_deepseek_api_key))
    /\ UNCHANGED <<session, secrets_key, uploaded_file, logged_out, text, prompts>>

Next ==
    \/ \E email \in Emails, password \in Passwords : Login(email, password)
    \/ \E key \in ApiKeys : EnterApiKey(key)
    \/ \E file \in Files : Upload(file)
    \/ Analyze
    \/ GenerateSnpReports
    \/ Logout

Spec == InitSession /\ [][Next]_vars

----------
(* Prompt construction on long texts: the two prompts built from one       *)
(* extracted text, for texts around the character limit.                   *)

PromptLens ==
    (0..MaxShort)
    \cup { n \in 0..(STANDARDS_SCRIPT_CHARS + MaxExtra) :
             n >= STANDARDS_SCRIPT_CHARS - MaxExtra }
    \cup { n \in 0..(PRODUCTION_SCRIPT_CHARS + MaxExtra) :
             n >= PRODUCTION_SCRIPT_CHARS - MaxExtra }

\* a text of n characters; texts of different patterns differ at every index
PromptText(n, p) == [i \in 1..n |-> 1 + ((i + p) % (MaxPattern + 1))]

InitPrompt ==
    /\ Init
    /\ secrets_key = TRUE
    /\ \E n \in PromptLens, p \in 1..MaxPattern : text = PromptText(n, p)

\* the user message of analyze_for_standards
StandardsPrompt ==
    /\ prompts = <<>>
    /\ prompts' = <<[kind |-> "standards", script |-> standards_script(text)]>>
    /\ UNCHANGED <<session, secrets_key, uploaded_file, llm_calls, view, snp_report,
                   logged_out, text>>

\* the user message of analyze_for_production
ProductionPrompt ==
    /\ Len(prompts) = 1
    /\ prompts' = Append(prompts, [kind |-> "production", script |-> production_script(text)])
    /\ UNCHANGED <<session, secrets_key, uploaded_file, llm_calls, view, snp_report,
                   logged_out, text>>

NextPrompt == StandardsPrompt \/ ProductionPrompt

SpecPrompt == InitPrompt /\ [][NextPrompt]_vars

----------------------------------------------------------------------------------------------------------------------------------------------
(* Vocabulary of the properties, stated on the inputs and the session, not *)
(* through the operators that model the code.                              *)

\* the stored result of the analysis of this kind
ResultOf(kind) == IF kind = "standards" THEN standards_results ELSE production_results

ResultKey(kind) == IF kind = "standards" THEN "standards_results" ELSE "production_results"

\* the reply is the text of one JSON document, white space around it allowed
IsJsonText(reply) == \E d \in DocNames : Strip(reply) = <<d>>

\* the file name ends in a dot and one of the supported extensions, in any case
HasSupportedExtension(name) ==
    /\ Len(name) >= 3
    /\ name[Len(name) - 1] = "."
    /\ name[Len(name)] \in {"pdf", "PDF", "docx", "Docx", "doc", "DOC"}

IsPdfName(name) == HasSupportedExtension(name) /\ name[Len(name)] \in {"pdf", "PDF"}

\* the decoder chosen for the name can read the bytes
Decodes(file) ==
    /\ HasSupportedExtension(file.name)
    /\ file.format = IF IsPdfName(file.name) THEN "pdf" ELSE "docx"

ProcessingErrors ==
    {"Processing error: Unsupported file type", "Processing error: Error reading PDF",
     "Processing error: Error reading DOCX"}

ResultKeys == {"standards_results", "production_results", "current_filename"}

CallKinds == [i \in DOMAIN llm_calls |-> llm_calls[i].kind]

\* the email, lower-cased and trimmed, ends with an allow-listed domain
AllowListed(email) ==
    LET e == Strip(Lower(email))
    IN  e # <<>> /\ e[Len(e)] \in {"@hoichoi.tv", "@gmail.com", "@example.com"}

\* the "Analyze Script" button is there to be pressed
AnalyzeOffered == authenticated /\ uploaded_file # NoFile /\ get_deepseek_api_key # ""

----------------------------------------------------------------------------
\* C1: a reply that is not decodable as JSON gives a stored result with an
\* `error` key, and no exception reaches the caller: the analysis call returns
\* and the Analyze action completes.
C1_UndecodableReplyGivesErrorResult ==
    \A i \in DOMAIN llm_calls :
        (llm_calls[i].api = "ok" /\ ~IsJsonText(llm_calls[i].reply))
        => /\ view.upload_msg = "Analysis complete!"
           /\ ResultKey(llm_calls[i].kind) \in keys
           /\ ResultOf(llm_calls[i].kind).type = "object"
           /\ ResultOf(llm_calls[i].kind).has_error

C1_Witness ==
    /\ Len(llm_calls) = 2
    /\ llm_calls[1].reply = <<"not json">>
    /\ llm_calls[2].reply = <<"not json">>
    /\ standards_results.has_error
    /\ production_results.has_error

\* C2: a reply that wraps the text of a JSON object in a json fenced block is
\* parsed to the same structure as the bare text (and is no error result).
C2_FencedParsesAsBare ==
    \A i \in DOMAIN llm_calls : \A d \in FencedDocs :
        (llm_calls[i].api = "ok" /\ llm_calls[i].reply = Fenced(d))
        => /\ ResultKey(llm_calls[i].kind) \in keys
           /\ ResultOf(llm_calls[i].kind) = DocOf(d)

\* C3: in the results tabs the `error` key of the stored result is the sole
\* failure signal: with it the tab shows the error and offers no report;
\* without it the tab renders the result and offers report generation.
C3_ErrorKeyIsSoleFailureSignal ==
    view.page = "app" =>
        /\ "standards_results" \in keys =>
              view.std_tab = IF standards_results.has_error
                             THEN TabView("error", FALSE) ELSE TabView("results", TRUE)
        /\ "production_results" \in keys =>
              view.prod_tab = IF production_results.has_error
                              THEN TabView("error", FALSE) ELSE TabView("results", TRUE)

\* C4: Analyze on a file whose extension is not .pdf, .docx or .doc (in any
\* case) fails with "Unsupported file type": the message is shown and no LLM
\* call is made.
C4_UnsupportedExtensionIsRejected ==
    (view.clicked /\ ~HasSupportedExtension(uploaded_file.name))
    => /\ view.upload_msg = "Processing error: Unsupported file type"
       /\ llm_calls = <<>>

C4_Witness ==
    /\ view.clicked
    /\ uploaded_file.name = <<"script", ".", "pdf", ".", "txt">>
    /\ uploaded_file.format = "pdf"
    /\ view.upload_msg = "Processing error: Unsupported file type"

\* C5: Analyze on a file whose extracted text is empty shows an error message
\* instead of completing the analysis.
C5_EmptyTextIsReported ==
    (view.clicked /\ Decodes(uploaded_file) /\ uploaded_file.pages = <<>>)
    => view.upload_msg # "Analysis complete!"

\* C6: a network failure during either LLM call is shown as a processing error
\* at the upload step, not as a completed analysis.
C6_NetworkFailureIsProcessingError ==
    (\E i \in DOMAIN llm_calls : llm_calls[i].api = "network_error")
    => view.upload_msg # "Analysis complete!"

\* C7: when text extraction raises during Analyze (unsupported type or decoder
\* failure), a processing error is shown, no LLM call is made, the session keeps
\* standards_results, production_results and current_filename as they were
\* (absent, or those of the previous analysis), and Analyze can be pressed again.
C7_FailedExtractionLeavesSession ==
    [][(view'.clicked /\ ~Decodes(uploaded_file'))
       => /\ view'.upload_msg \in ProcessingErrors
          /\ llm_calls' = <<>>
          /\ UNCHANGED <<keys, standards_results, production_results, current_filename>>
          /\ AnalyzeOffered']_vars

C7_Witness ==
    /\ view.clicked
    /\ view.upload_msg = "Processing error: Error reading PDF"
    /\ ResultKeys \subseteq keys
    /\ current_filename = <<"script", ".", "docx">>
    /\ AnalyzeOffered

\* C8: an Analyze whose extraction succeeds makes exactly one standards call and
\* then exactly one production call, whatever the standards call gave; no other
\* run makes a call.
C8_OneStandardsThenOneProductionCall ==
    /\ ~view.clicked => llm_calls = <<>>
    /\ view.clicked =>
          IF Decodes(uploaded_file) THEN CallKinds = <<"standards", "production">>
          ELSE llm_calls = <<>>

C8_Witness ==
    /\ view.clicked
    /\ Len(llm_calls) = 2
    /\ llm_calls[1].api = "network_error"
    /\ llm_calls[2].kind = "production"
    /\ llm_calls[2].api = "ok"

\* C9: the script portion of each of the two prompts is the prefix of the
\* extracted text of length min(len(text), 10000): nothing at index 10000 or
\* later is sent.
C9_PromptEmbedsFirst10000Chars ==
    \A i \in DOMAIN prompts :
        /\ Len(prompts[i].script) = IF Len(text) < 10000 THEN Len(text) ELSE 10000
        /\ \A j \in 1..Len(prompts[i].script) : prompts[i].script[j] = text[j]

C9_Witness ==
    /\ Len(text) > 10000
    /\ Len(prompts) = 2
    /\ prompts[2].kind = "production"
    /\ Len(prompts[2].script) = 10000

\* C10: the application page is shown, LLM calls are made, a file is held and
\* results are stored only while authenticated is true, and authenticated
\* becomes true only by a Login whose email, lower-cased and trimmed, ends with
\* an allow-listed domain, whatever the password.
C10_GatedByEmailAllowList ==
    /\ [](( \/ view.page = "app"
            \/ llm_calls # <<>>
            \/ uploaded_file # NoFile
            \/ keys \cap ResultKeys # {} )
          => ("authenticated" \in keys /\ authenticated))
    /\ [][(~authenticated /\ authenticated')
          => \E email \in Emails :
                /\ AllowListed(email)
                /\ \A password \in Passwords : Login(email, password)]_vars

C10_Witness ==
    /\ authenticated
    /\ user_email = <<" ", "alice", "@GMAIL.COM", " ">>
    /\ view.page = "app"
    /\ llm_calls # <<>>
    /\ "standards_results" \in keys

\* C11: the Violations sheet of the S&P report has the header row Type,
\* Severity, Page, Violation Text, Explanation, Suggested Action, and row i+1
\* holds the i-th violation's type, severity, page number, text, explanation and
\* suggested action in that column order.
C11_ViolationsSheetLayout ==
    snp_report.offered =>
        LET sheet == snp_report.violations_sheet
            violations == standards_results.violations
            Text(x) == IF x \in {"absent", "null"} THEN Blank ELSE Str(x)
        IN  /\ Len(sheet) = Len(violations) + 1
            /\ sheet[1] = <<Str("Type"), Str("Severity"), Str("Page"),
                            Str("Violation Text"), Str("Explanation"),
                            Str("Suggested Action")>>
            /\ \A i \in DOMAIN violations :
                  sheet[i + 1] = <<Text(violations[i].violationType),
                                   Text(violations[i].severity),
                                   Num(violations[i].pageNumber),
                                   Text(violations[i].violationText),
                                   Text(violations[i].explanation),
                                   Text(violations[i].suggestedAction)>>

\* the stored result is what the reply of this call decodes to, or an error
\* result when the call failed or the reply is no JSON text
StoredFrom(result, call) ==
    IF call.api = "ok" /\ IsJsonText(call.reply)
    THEN result = DocOf(Strip(call.reply)[1])
    ELSE result.type = "object" /\ result.has_error

\* C12: standards_results, production_results and current_filename are all
\* present or all absent, and they only change together: deleted together, or
\* all three set by one completed Analyze of the uploaded file, whose two calls
\* carry the same text and give the two results.
C12_ResultsComeFromOneAnalyze ==
    /\ [](ResultKeys \subseteq keys \/ ResultKeys \cap keys = {})
    /\ [][( \/ standards_results' # standards_results
            \/ production_results' # production_results
            \/ current_filename' # current_filename
            \/ keys' \cap ResultKeys # keys \cap ResultKeys )
          => \/ /\ keys' \cap ResultKeys = {}
                /\ standards_results' = NoResult
                /\ production_results' = NoResult
                /\ current_filename' = <<>>
             \/ /\ ResultKeys \subseteq keys'
                /\ view'.clicked
                /\ view'.upload_msg = "Analysis complete!"
                /\ uploaded_file' = uploaded_file
                /\ current_filename' = uploaded_file.name
                /\ Len(llm_calls') = 2
                /\ llm_calls'[1].script = llm_calls'[2].script
                /\ (llm_calls'[1].script = <<>>) = (uploaded_file.pages = <<>>)
                /\ StoredFrom(standards_results', llm_calls'[1])
                /\ StoredFrom(production_results', llm_calls'[2])]_vars

C12_Witness ==
    /\ logged_out
    /\ ResultKeys \subseteq keys
    /\ current_filename = <<"script", ".", "docx">>
    /\ standards_results = DocOf("{violations}")
    /\ production_results = DocOf("{locations:no scenes}")
    /\ uploaded_file.name = <<"script", ".", "PDF">>
    /\ uploaded_file.format = "corrupt"
    /\ view.clicked
    /\ view.upload_msg \in ProcessingErrors

\* the results tabs show the "upload and analyze a script" note
TabsShowNoResults ==
    /\ view.std_tab = TabView("info", FALSE)
    /\ view.prod_tab = TabView("info", FALSE)

\* C13: a Logout leaves the session unauthenticated and without results, file
\* name, user identity and temporary API key; a later Login starts without
\* them, and the results tabs show no results until an Analyze completes.
C13_LogoutClearsSession ==
    /\ [][(authenticated /\ ~authenticated')
          => /\ keys' \subseteq {"authenticated"}
             /\ user_email' = <<>> /\ user_name' = <<>> /\ ~is_admin'
             /\ temp_deepseek_key' = ""
             /\ standards_results' = NoResult /\ production_results' = NoResult
             /\ current_filename' = <<>>
             /\ snp_report' = NoReport
             /\ view'.page = "login"]_vars
    /\ [][(~authenticated /\ authenticated')
          => /\ keys' \cap (ResultKeys \cup {"temp_deepseek_key"}) = {}
             /\ TabsShowNoResults']_vars
    /\ []((authenticated /\ keys \cap ResultKeys = {}) => TabsShowNoResults)
    /\ [][(keys \cap ResultKeys = {} /\ keys' \cap ResultKeys # {})
          => (view'.clicked /\ view'.upload_msg = "Analysis complete!")]_vars

C13_Witness ==
    /\ logged_out
    /\ authenticated
    /\ ~secrets_key
    /\ keys = {"authenticated", "user_email", "user_name", "is_admin"}
    /\ uploaded_file = NoFile
    /\ view.page = "app"
    /\ TabsShowNoResults

====
